---- MODULE Spec2Model ----
(***************************************************************************)
(* Model of src/main.py: the transcript-to-summary pipeline.               *)
(*                                                                         *)
(*   main            get_transcript, get_questions, get_answer,            *)
(*                   get_summary_file, in that order                       *)
(*   get_answer      one backend call per entry of the question mapping    *)
(*   get_summary_file  copy of the template, substitution of the image     *)
(*                   path and of one placeholder line per answer, in-place *)
(*                   rewrite of the copy, optional PDF rendering           *)
(*                                                                         *)
(* Text is modelled character by character: a str is a sequence of         *)
(* one-character strings, a file is the str of its content, and the file   *)
(* system is a function from the paths that exist to their content.        *)
(***************************************************************************)
EXTENDS Integers, Sequences, FiniteSets, TLC

\* Longest template, in lines, that Init draws.
MaxLines == 3

\* Number of calls of get_summary_file in one behaviour.
MaxRuns == 2

-----------------------------------------------------------------------------
(* str literals of the program *)

COLONS == <<":", ":", ":">>

NL == <<"\n">>

IMG_NAME == <<"p", "a", "t", "h", "_", "t", "o", "_", "i", "m", "g">>

\* ":::path_to_img:::", the first argument of replace at line 115
IMG_TOKEN == COLONS \o IMG_NAME \o COLONS

\* join("template", "img.svg")
path_to_logo ==
  <<"t", "e", "m", "p", "l", "a", "t", "e", "/", "i", "m", "g", ".", "s", "v", "g">>

\* Field keys a question mapping may hold.
Fields == {"a", "path_to_img"}

\* The characters of a field key.
FieldName(f) == IF f = "path_to_img" THEN IMG_NAME ELSE <<f>>

\* f":::{field}:::" and f":::{field}:::\n"
Token(f) == COLONS \o FieldName(f) \o COLONS

Placeholder(f) == Token(f) \o NL

-----------------------------------------------------------------------------
(* str and list operations of the Python runtime, as the code uses them *)

\* sub in s
Occurs(s, sub) ==
  \E i \in 1..(Len(s) - Len(sub) + 1) : SubSeq(s, i, i + Len(sub) - 1) = sub

\* s.replace(old, new): every occurrence, leftmost first, non-overlapping
RECURSIVE StrReplace(_, _, _)
StrReplace(s, old, new) ==
  IF Len(s) < Len(old) THEN s
  ELSE IF SubSeq(s, 1, Len(old)) = old
       THEN new \o StrReplace(SubSeq(s, Len(old) + 1, Len(s)), old, new)
       ELSE <<Head(s)>> \o StrReplace(Tail(s), old, new)

\* f.readlines(): the lines of the content, each keeping its "\n"; a last
\* line without "\n" is returned as it is
RECURSIVE SplitLines(_, _)
SplitLines(s, cur) ==
  IF s = <<>> THEN (IF cur = <<>> THEN <<>> ELSE <<cur>>)
  ELSE IF Head(s) = "\n"
       THEN <<Append(cur, "\n")>> \o SplitLines(Tail(s), <<>>)
       ELSE SplitLines(Tail(s), Append(cur, Head(s)))

readlines(content) == SplitLines(content, <<>>)

\* ''.join(lines)
RECURSIVE Join(_)
Join(ls) == IF ls = <<>> THEN <<>> ELSE Head(ls) \o Join(Tail(ls))

\* lines.index(x), 1-based; 0 stands for the ValueError of a missing element
Index(ls, x) ==
  IF \E i \in 1..Len(ls) : ls[i] = x
  THEN CHOOSE i \in 1..Len(ls) : ls[i] = x /\ \A j \in 1..(i - 1) : ls[j] # x
  ELSE 0

\* f.seek(0); f.write(text) on a file opened "r+" whose content was old:
\* the text overwrites from offset 0, the file is not truncated
SeekWrite(old, text) == text \o SubSeq(old, Len(text) + 1, Len(old))

-----------------------------------------------------------------------------
(* dict, as an insertion-ordered sequence of <<key, value>> with unique keys *)

\* d[key] = value
DictSet(d, key, value) ==
  IF \E i \in 1..Len(d) : d[i][1] = key
  THEN [i \in 1..Len(d) |-> IF d[i][1] = key THEN <<key, value>> ELSE d[i]]
  ELSE Append(d, <<key, value>>)

-----------------------------------------------------------------------------
(* paths *)

path_to_template == <<"template", 0, "md">>

\* join(PATH_TO_DIR, f"summary{token}.md")
SummaryPath(token) == <<"summary", token, "md">>

\* path_to_file[:-2] + "pdf"
PdfPath(p) == [p EXCEPT ![3] = "pdf"]

NoPath == <<"", 0, "">>

-----------------------------------------------------------------------------
(* inputs *)

\* Lines a template is built of.
LinePool == { <<"x">> \o NL, IMG_TOKEN \o NL, Placeholder("a") }

LineSeqs == UNION { [1..n -> LinePool] : n \in 0..MaxLines }

\* s without its last character
Chop(s) == SubSeq(s, 1, Len(s) - 1)

\* Template files: up to MaxLines lines, the last one with or without "\n".
Templates ==
  { Join(ls) : ls \in LineSeqs } \cup { Chop(Join(ls)) : ls \in LineSeqs \ {<<>>} }

\* The members an entry of questions.yaml may have.
Members == {"question", "ans_template"}

\* What safe_load returns: a mapping from distinct field keys to mappings.
YamlDocs ==
  { d \in UNION { [1..n -> Fields \X (SUBSET Members)] : n \in 0..Cardinality(Fields) } :
      \A i, j \in 1..Len(d) : i # j => d[i][1] # d[j][1] }

\* Texts the backend may return.
Answers == { <<>>,
             Placeholder("a"),
             <<"0", "3", ".", "0", "4", ".", "2", "0", "2", "4">> }

NoError == [type |-> "none", arg |-> <<>>]

-----------------------------------------------------------------------------
VARIABLES
  pc,            \* the statement the program is at
  yaml,          \* content of template/questions.yaml, as safe_load parses it
  questions,     \* main: questions
  k,             \* get_answer: position of the for loop in questions.items()
  result,        \* get_answer: result; get_summary_file: result
  calls,         \* the field keys chain.invoke was called for, in call order
  failedAt,      \* position of the entry whose chain.invoke raised, 0 if none
  fs,            \* the file system: path -> content, for the paths that exist
  issued,        \* number of uuid4 values drawn so far
  path_to_file,  \* get_summary_file: path_to_file
  make_pdf,      \* get_summary_file: make_pdf
  lines,         \* get_summary_file: lines
  j,             \* get_summary_file: position of the for loop in result.items()
  text,          \* get_summary_file: text
  pending,       \* TRUE while f.write(text) sits in the buffer of f
  err,           \* the exception being raised, NoError if none
  runs           \* number of calls of get_summary_file so far

vars == <<pc, yaml, questions, k, result, calls, failedAt, fs, issued,
          path_to_file, make_pdf, lines, j, text, pending, err, runs>>

answerVars == <<questions, k, result, calls, failedAt>>

summaryVars == <<fs, issued, path_to_file, make_pdf, lines, j, text, pending, runs>>

\* fs with content written to path p
FsPut(f, p, content) ==
  [q \in (DOMAIN f) \cup {p} |-> IF q = p THEN content ELSE f[q]]

Init ==
  /\ pc = "get_transcript"
  /\ yaml \in YamlDocs
  /\ questions = <<>>
  /\ k = 0
  /\ result = <<>>
  /\ calls = <<>>
  /\ failedAt = 0
  /\ \E tpl \in Templates : fs = (path_to_template :> tpl)
  /\ issued = 0
  /\ path_to_file = NoPath
  /\ make_pdf = TRUE
  /\ lines = <<>>
  /\ j = 0
  /\ text = <<>>
  /\ pending = FALSE
  /\ err = NoError
  /\ runs = 0

-----------------------------------------------------------------------------
(* main, lines 138-139 *)

\* transcript = get_transcript(path_to_transcript): the transcript is opaque
GetTranscript ==
  /\ pc = "get_transcript"
  /\ pc' = "get_questions"
  /\ UNCHANGED <<yaml, err>>
  /\ UNCHANGED answerVars
  /\ UNCHANGED summaryVars

\* questions = get_questions(path_to_questions): safe_load, nothing checked
GetQuestions ==
  /\ pc = "get_questions"
  /\ questions' = yaml
  /\ k' = 1
  /\ pc' = "get_answer"
  /\ UNCHANGED <<yaml, err, result, calls, failedAt>>
  /\ UNCHANGED summaryVars

-----------------------------------------------------------------------------
(* get_answer, lines 81-95 *)

\* value["question"] or value["ans_template"] of a missing member
GetAnswerKeyError ==
  /\ pc = "get_answer"
  /\ k <= Len(questions)
  /\ questions[k][2] # Members
  /\ err' = [type |-> "KeyError",
             arg |-> IF "question" \notin questions[k][2]
                     THEN <<"question">> ELSE <<"ans_template">>]
  /\ pc' = "failed"
  /\ UNCHANGED yaml
  /\ UNCHANGED answerVars
  /\ UNCHANGED summaryVars

\* Faulty variant of InvokeError: the exception is caught and the loop goes on
\* with an empty answer.
InvokeErrorSwallowed ==
  /\ pc = "get_answer"
  /\ k <= Len(questions)
  /\ questions[k][2] = Members
  /\ calls' = Append(calls, questions[k][1])
  /\ failedAt' = k
  /\ result' = DictSet(result, questions[k][1], <<>>)
  /\ k' = k + 1
  /\ UNCHANGED <<pc, yaml, questions, err>>
  /\ UNCHANGED summaryVars

\* result[field] = chain.invoke(...), the backend raising
InvokeError ==
  /\ pc = "get_answer"
  /\ k <= Len(questions)
  /\ questions[k][2] = Members
  /\ calls' = Append(calls, questions[k][1])
  /\ failedAt' = k
  /\ err' = [type |-> "BackendError", arg |-> <<>>]
  /\ pc' = "failed"
  /\ UNCHANGED <<yaml, questions, k, result>>
  /\ UNCHANGED summaryVars

\* result[field] = chain.invoke(...), the backend returning ans
Invoke ==
  /\ pc = "get_answer"
  /\ k <= Len(questions)
  /\ questions[k][2] = Members
  /\ \E ans \in Answers :
       result' = DictSet(result, questions[k][1], ans)
  /\ calls' = Append(calls, questions[k][1])
  /\ k' = k + 1
  /\ UNCHANGED <<pc, yaml, questions, failedAt, err>>
  /\ UNCHANGED summaryVars

\* Faulty variant of GetAnswerReturn: return result inside the loop body, so
\* that the function may return after the first entry.
GetAnswerReturnEarly ==
  /\ pc = "get_answer"
  /\ k > 1 \/ k > Len(questions)
  /\ pc' = "copy"
  /\ UNCHANGED <<yaml, err>>
  /\ UNCHANGED answerVars
  /\ UNCHANGED summaryVars

\* return result, and main's call get_summary_file(path_to_template, result)
GetAnswerReturn ==
  /\ pc = "get_answer"
  /\ k > Len(questions)
  /\ pc' = "copy"
  /\ UNCHANGED <<yaml, err>>
  /\ UNCHANGED answerVars
  /\ UNCHANGED summaryVars

-----------------------------------------------------------------------------
(* get_summary_file, lines 108-128 *)

\* Faulty variant of uuid4: the token of the previous call comes again.
uuid4_repeated == IF issued = 0 THEN 1 ELSE issued

\* uuid4(): a token no earlier call returned
uuid4 == issued + 1

\* lines 108-111: the file name, and copy(path, path_to_file)
Copy ==
  /\ pc = "copy"
  /\ issued' = issued + 1
  /\ path_to_file' = SummaryPath(uuid4)
  /\ fs' = FsPut(fs, SummaryPath(uuid4), fs[path_to_template])
  /\ runs' = runs + 1
  /\ pc' = "readlines"
  /\ UNCHANGED <<yaml, err, make_pdf, lines, j, text, pending>>
  /\ UNCHANGED answerVars

\* lines 113-114: open(path_to_file, "r+"), lines = f.readlines()
ReadLines ==
  /\ pc = "readlines"
  /\ lines' = readlines(fs[path_to_file])
  /\ pc' = "img"
  /\ UNCHANGED <<yaml, err, fs, issued, path_to_file, make_pdf, j, text, pending, runs>>
  /\ UNCHANGED answerVars

\* Faulty variant of SubstImg: the token is replaced on every line.
SubstImgScan(ls) ==
  [i \in 1..Len(ls) |-> StrReplace(ls[i], IMG_TOKEN, path_to_logo)]

\* line 115: lines[1] = lines[1].replace(":::path_to_img:::", path_to_logo)
SubstImg(ls) == [ls EXCEPT ![2] = StrReplace(ls[2], IMG_TOKEN, path_to_logo)]

\* line 115 on a list of fewer than two lines: lines[1] raises IndexError
ImgIndexError ==
  /\ pc = "img"
  /\ Len(lines) < 2
  /\ err' = [type |-> "IndexError", arg |-> <<>>]
  /\ pc' = "close"
  /\ UNCHANGED yaml
  /\ UNCHANGED answerVars
  /\ UNCHANGED summaryVars

ImgSubst ==
  /\ pc = "img"
  /\ Len(lines) >= 2
  /\ lines' = SubstImg(lines)
  /\ j' = 1
  /\ pc' = "subst"
  /\ UNCHANGED <<yaml, err, fs, issued, path_to_file, make_pdf, text, pending, runs>>
  /\ UNCHANGED answerVars

\* Faulty variant of SubstField: a line terminator is added to the answer.
SubstFieldNewline(ls, field, ans) ==
  [ls EXCEPT ![Index(ls, Placeholder(field))] = ans \o NL]

\* line 118: lines[lines.index(f":::{field}:::\n")] = ans
SubstField(ls, field, ans) == [ls EXCEPT ![Index(ls, Placeholder(field))] = ans]

\* line 118 when no line is the placeholder: index raises ValueError, whose
\* message quotes the element looked for
FieldValueError ==
  /\ pc = "subst"
  /\ j <= Len(result)
  /\ Index(lines, Placeholder(result[j][1])) = 0
  /\ err' = [type |-> "ValueError", arg |-> Placeholder(result[j][1])]
  /\ pc' = "close"
  /\ UNCHANGED yaml
  /\ UNCHANGED answerVars
  /\ UNCHANGED summaryVars

FieldSubst ==
  /\ pc = "subst"
  /\ j <= Len(result)
  /\ Index(lines, Placeholder(result[j][1])) # 0
  /\ lines' = SubstField(lines, result[j][1], result[j][2])
  /\ j' = j + 1
  /\ UNCHANGED <<pc, yaml, err, fs, issued, path_to_file, make_pdf, text, pending, runs>>
  /\ UNCHANGED answerVars

\* lines 120-122: text = ''.join(lines); f.seek(0); f.write(text)
Write ==
  /\ pc = "subst"
  /\ j > Len(result)
  /\ text' = Join(lines)
  /\ pending' = TRUE
  /\ pc' = IF make_pdf THEN "render" ELSE "close"
  /\ UNCHANGED <<yaml, err, fs, issued, path_to_file, make_pdf, lines, j, runs>>
  /\ UNCHANGED answerVars

\* lines 125-128: the PDF of text, saved next to the markdown file
Render ==
  /\ pc = "render"
  /\ fs' = FsPut(fs, PdfPath(path_to_file), text)
  /\ pc' = "close"
  /\ UNCHANGED <<yaml, err, issued, path_to_file, make_pdf, lines, j, text, pending, runs>>
  /\ UNCHANGED answerVars

\* lines 126-128 raising: add_section before any file exists, or save with
\* the PDF file left empty
RenderError ==
  /\ pc = "render"
  /\ fs' \in {fs, FsPut(fs, PdfPath(path_to_file), <<>>)}
  /\ err' = [type |-> "RenderError", arg |-> <<>>]
  /\ pc' = "close"
  /\ UNCHANGED <<yaml, issued, path_to_file, make_pdf, lines, j, text, pending, runs>>
  /\ UNCHANGED answerVars

\* the end of the with block: f is closed, which flushes a buffered write;
\* an exception raised inside the block goes on to the caller
Close ==
  /\ pc = "close"
  /\ fs' = IF pending
           THEN FsPut(fs, path_to_file, SeekWrite(fs[path_to_file], text))
           ELSE fs
  /\ pending' = FALSE
  /\ pc' = IF err = NoError THEN "done" ELSE "failed"
  /\ UNCHANGED <<yaml, err, issued, path_to_file, make_pdf, lines, j, text, runs>>
  /\ UNCHANGED answerVars

\* a further call get_summary_file(path_to_template, result, make_pdf)
Rerun ==
  /\ pc \in {"done", "failed"}
  /\ runs >= 1
  /\ runs < MaxRuns
  /\ make_pdf' \in BOOLEAN
  /\ lines' = <<>>
  /\ j' = 0
  /\ text' = <<>>
  /\ err' = NoError
  /\ pc' = "copy"
  /\ UNCHANGED <<yaml, fs, issued, path_to_file, pending, runs>>
  /\ UNCHANGED answerVars

-----------------------------------------------------------------------------
Next ==
  \/ GetTranscript
  \/ GetQuestions
  \/ GetAnswerKeyError
  \/ InvokeError
  \/ Invoke
  \/ GetAnswerReturn
  \/ Copy
  \/ ReadLines
  \/ ImgIndexError
  \/ ImgSubst
  \/ FieldValueError
  \/ FieldSubst
  \/ Write
  \/ Render
  \/ RenderError
  \/ Close
  \/ Rerun

Spec == Init /\ [][Next]_vars

-----------------------------------------------------------------------------
(* Properties *)

\* The lines of the template file.
TemplateLines == readlines(fs[path_to_template])

\* get_answer has returned its result.
GetAnswerReturned == pc = "copy" \/ runs >= 1

\* C1: when get_answer returns, the answer mapping has exactly the keys of
\* the question mapping, in its iteration order, and the backend was called
\* exactly once per key, in that order.
C1_AnswersMatchQuestions ==
  GetAnswerReturned =>
    /\ Len(result) = Len(questions)
    /\ \A i \in 1..Len(questions) : result[i][1] = questions[i][1]
    /\ Len(calls) = Len(questions)
    /\ \A i \in 1..Len(questions) : calls[i] = questions[i][1]

C1_Witness ==
  /\ GetAnswerReturned
  /\ Len(questions) = 2
  /\ Len(calls) = 2

\* C2: if the backend call fails on the k-th question, the run is over:
\* get_summary_file is never entered, the output directory holds no summary
\* file and no PDF, and no backend call follows the k-th.
C2_BackendFailureAborts ==
  failedAt # 0 =>
    /\ pc = "failed"
    /\ runs = 0
    /\ DOMAIN fs = {path_to_template}
    /\ Len(calls) = failedAt

C2_Witness ==
  /\ failedAt = 1
  /\ Len(questions) = 2
  /\ pc = "failed"

\* C3: if the template has no line equal to the placeholder of some field of
\* the answer set, assembly fails with an error naming that field and leaves
\* no summary file and no PDF behind.  Stated for templates of at least two
\* lines, which pass the image substitution.
C3_NoLeftoverOnMissingPlaceholder ==
  ( /\ runs >= 1
    /\ pc \in {"done", "failed"}
    /\ Len(TemplateLines) >= 2
    /\ \E i \in 1..Len(result) : Index(TemplateLines, Placeholder(result[i][1])) = 0 )
  =>
    /\ pc = "failed"
    /\ err.type = "ValueError"
    /\ \E i \in 1..Len(result) :
         /\ Index(TemplateLines, Placeholder(result[i][1])) = 0
         /\ err.arg = Placeholder(result[i][1])
    /\ path_to_file \notin DOMAIN fs
    /\ PdfPath(path_to_file) \notin DOMAIN fs

\* The template has exactly one placeholder line per field of the answer set
\* and the image token on its second line.
OnePlaceholderPerField ==
  /\ Len(TemplateLines) >= 2
  /\ Occurs(TemplateLines[2], IMG_TOKEN)
  /\ \A i \in 1..Len(result) :
       Cardinality({ n \in 1..Len(TemplateLines) :
                       TemplateLines[n] = Placeholder(result[i][1]) }) = 1

\* No answer contains a placeholder token.
AnswersFreeOfTokens ==
  \A i \in 1..Len(result) : \A f \in Fields : ~Occurs(result[i][2], Token(f))

\* C4: for a template with one placeholder line per field plus the image
\* placeholder and answers free of placeholder tokens, the markdown file on
\* disk after a successful assembly contains no token of any field.
C4_NoTokenLeftInFile ==
  (pc = "done" /\ OnePlaceholderPerField /\ AnswersFreeOfTokens) =>
    \A i \in 1..Len(result) : ~Occurs(fs[path_to_file], Token(result[i][1]))

\* C5: if PDF rendering fails after the substitutions, the markdown file of
\* the run exists afterwards and its content is the substituted text.
C5_MarkdownKeptOnRenderError ==
  (pc = "failed" /\ err.type = "RenderError") =>
    /\ path_to_file \in DOMAIN fs
    /\ fs[path_to_file] = text

\* C6: if an entry of the question specification lacks its question or its
\* answer-template hint, the run fails before any backend call is made.
C6_BadSpecFailsBeforeBackend ==
  (\E i \in 1..Len(yaml) : yaml[i][2] # Members) =>
    calls = <<>>

\* C7: no step changes the template file or a file other than the summary
\* file and the PDF of the run in progress, and the summary file and the PDF
\* of a run do not exist before the run starts.
C7_RunsOwnTheirFiles ==
  [][ /\ path_to_template \in DOMAIN fs'
      /\ fs'[path_to_template] = fs[path_to_template]
      /\ \A p \in DOMAIN fs :
           p \notin {path_to_file', PdfPath(path_to_file')} =>
             p \in DOMAIN fs' /\ fs'[p] = fs[p]
      /\ runs' # runs =>
           /\ path_to_file' \notin DOMAIN fs
           /\ PdfPath(path_to_file') \notin DOMAIN fs ]_vars

C7_Witness ==
  /\ runs = 2
  /\ pc = "done"
  /\ Cardinality(DOMAIN fs) >= 4
  /\ fs[path_to_file] # fs[path_to_template]

\* C8: after a successful assembly the markdown file holds exactly the
\* substituted text, which is also what the PDF was rendered from.
C8_FileIsSubstitutedText ==
  pc = "done" =>
    /\ fs[path_to_file] = text
    /\ make_pdf => fs[PdfPath(path_to_file)] = fs[path_to_file]

\* One step of the substitution loop, for the pair (field, ans): the first
\* line equal to the placeholder of field becomes ans, nothing else changes.
ReplacesFirstPlaceholder(field, ans) ==
  \E i \in 1..Len(lines) :
    /\ lines[i] = Placeholder(field)
    /\ \A n \in 1..(i - 1) : lines[n] # Placeholder(field)
    /\ Len(lines') = Len(lines)
    /\ lines'[i] = ans
    /\ \A n \in 1..Len(lines) : n # i => lines'[n] = lines[n]

\* From the image substitution on, lines that are neither the second line nor
\* a placeholder line of a field of the answer set are those of the template,
\* at the same positions (text is the concatenation of lines).
OtherLinesKept ==
  LET tl == TemplateLines IN
  (runs >= 1 /\ pc \notin {"copy", "readlines", "img"} /\ Len(tl) >= 2) =>
    /\ Len(lines) = Len(tl)
    /\ \A n \in 1..Len(lines) :
         ( /\ n # 2
           /\ \A i \in 1..Len(result) : tl[n] # Placeholder(result[i][1]) )
         => lines[n] = tl[n]

\* C9: for every (field, answer) pair assembly replaces the first line equal
\* to the placeholder of the field by the answer, verbatim, and every line
\* that is neither the second line nor a placeholder line stays as in the
\* template.
C9_PlaceholderLinesReplaced ==
  /\ []OtherLinesKept
  /\ [][ (pc = "subst" /\ j' = j + 1) =>
           ReplacesFirstPlaceholder(result[j][1], result[j][2]) ]_vars

C9_Witness ==
  /\ pc = "done"
  /\ \E m, n \in 1..Len(lines) :
       /\ m < n
       /\ TemplateLines[m] = Placeholder("a")
       /\ TemplateLines[n] = Placeholder("a")
       /\ lines[n] = Placeholder("a")
       /\ \E i \in 1..Len(result) :
            /\ result[i] = <<"a", lines[m]>>
            /\ lines[m] # Placeholder("a")

\* The second line of the template holds the image token.
ImgOnSecondLine == Len(TemplateLines) >= 2 /\ Occurs(TemplateLines[2], IMG_TOKEN)

\* C10 as stated: the token on the second line is replaced by the logo path;
\* when it is not there, assembly raises no error for it and every occurrence
\* on another line is in the output document as it was in the template.
C10_Original ==
  (runs >= 1 /\ pc \in {"done", "failed"}) =>
    /\ ~ImgOnSecondLine => err.type # "IndexError"
    /\ pc = "done" =>
         /\ ImgOnSecondLine => ~Occurs(lines[2], IMG_TOKEN)
         /\ \A n \in 1..Len(TemplateLines) :
              (n # 2 /\ Occurs(TemplateLines[n], IMG_TOKEN)) => lines[n] = TemplateLines[n]

\* C10 as amended: a template of fewer than two lines fails with IndexError;
\* otherwise the image substitution raises nothing, replaces the token on
\* the second line by the logo path, and leaves the other lines alone; in the
\* output document a token on another line is unreplaced unless that line is
\* the placeholder line of a field of the answer set (a field named
\* path_to_img), which the field substitution replaces.
C10_ImgSubstitutionPositional ==
  LET tl == TemplateLines IN
  /\ (runs >= 1 /\ pc \in {"done", "failed"}) =>
       (err.type = "IndexError" <=> Len(tl) < 2)
  /\ (pc = "subst" /\ j = 1) =>
       /\ Len(lines) = Len(tl)
       /\ ~Occurs(lines[2], IMG_TOKEN)
       /\ Occurs(tl[2], IMG_TOKEN) => Occurs(lines[2], path_to_logo)
       /\ ~Occurs(tl[2], IMG_TOKEN) => lines[2] = tl[2]
       /\ \A n \in 1..Len(lines) : n # 2 => lines[n] = tl[n]
  /\ pc = "done" =>
       \A n \in 1..Len(tl) :
         (n # 2 /\ Occurs(tl[n], IMG_TOKEN)) =>
           \/ lines[n] = tl[n]
           \/ \E i \in 1..Len(result) : tl[n] = Placeholder(result[i][1])

C10_Witness ==
  /\ pc = "done"
  /\ ImgOnSecondLine
  /\ Occurs(lines[2], path_to_logo)
  /\ \E n \in 1..Len(lines) :
       n # 2 /\ Occurs(TemplateLines[n], IMG_TOKEN) /\ lines[n] = TemplateLines[n]

====
